---- MODULE Spec2Model ----
(***************************************************************************)
(* A model of the two collections of the crate: TwoLockQueue               *)
(* (src/src/two_lock_queue.rs) and DoublyLinkList (src/src/doubly.rs).     *)
(*                                                                         *)
(* Heap cells are records indexed by a node identifier (the address of a   *)
(* Box).  An Option is the empty sequence (None) or a one-element sequence *)
(* (Some(v)).  Every statement of push and pop that reads or writes shared *)
(* state is one action, so that every interleaving of the statements of    *)
(* concurrent calls is a behaviour of the model.                           *)
(***************************************************************************)
EXTENDS Integers, Sequences, FiniteSets, TLC

\* ------------------------------------------------------------------ bounds
NThreads == 2
MaxPush == 3
MaxSeqPush == 3
MaxSeqOps == 7
MaxListOps == 6
MaxFairPush == 2
MaxObsPush == 2
MaxCloneOps == 6
MaxLists == 3

Threads == 1 .. NThreads
Vals == {1, 2}
ListVals == {1, 2}

None == << >>
Some(v) == << v >>

VARIABLES
    \* TwoLockQueue: the heap of Node<T>, and the three fields of the queue
    node,          \* node id -> [data, next, st]; st is "live" or "freed"
    head,          \* the Box the head mutex guards (a node id)
    tail,          \* the NonNull the tail mutex guards (a node id)
    len,           \* the AtomicUsize
    headLock,      \* 0 when free, else the thread holding the guard
    tailLock,      \* 0 when free, else the thread holding the guard
    headPoisoned,  \* a thread panicked while holding the head guard
    \* the threads calling the queue
    pc,            \* the statement each thread is at
    val,           \* push: the argument val
    newp,          \* push: new_ptr
    res,           \* pop: the value last returned (an Option)
    \* history of the run
    pushOrder,     \* the values pushed, in the order the tail lock was granted
    popOrder,      \* the values of successful pops, in head lock order
    npush,         \* how many push calls each thread has made
    quiet,         \* during a pop: every push call had returned when len was read
    drained,       \* a pop that began after the last push returned None
    uaf,           \* a push wrote through a tail pointer to a freed node
    log,           \* the calls completed by the single thread, in order
    lenSeen,       \* the value last returned by len()
    \* DoublyLinkList
    dnode,         \* node id -> [val, next, prev, st]
    lists,         \* the lists of the program, each [head, tail, len]: head and
                   \* tail an Option of a node id, len a usize
    dres,          \* the value last returned by a pop (an Option)
    dstatus,       \* "ok", or how the last call ended: "panicked", "ub"
    build,         \* the build profile; "any" while no overflow check was met
    model,         \* the reference double-ended sequence of each list
    mres,          \* what the same call returned on the reference sequence
    dops           \* number of calls made

qvars == << node, head, tail, len, headLock, tailLock, headPoisoned,
            pc, val, newp, res, pushOrder, popOrder, npush, quiet,
            drained, uaf >>
dvars == << dnode, lists, dres, dstatus, build, model, mres, dops >>
vars == << qvars, log, lenSeen, dvars >>

\* ------------------------------------------------------- TwoLockQueue
\* Node::new(data) and Node::empty()
NodeNew(data) == [data |-> Some(data), next |-> None, st |-> "live"]
NodeEmpty == [data |-> None, next |-> None, st |-> "live"]

\* The address Box::new returns: a cell never handed out before.
FreshNode == Cardinality(DOMAIN node)

\* The value thread t pushes on its k-th call, as the tests tag them (i * 100 + j).
Tag(t, k) == t * 100 + k

\* Variant of QueueNew: the counter counts the sentinel.
QueueNew_CountsSentinel ==
    /\ node = (0 :> NodeEmpty)
    /\ head = 0
    /\ tail = 0
    /\ len = 1
    /\ headLock = 0
    /\ tailLock = 0
    /\ headPoisoned = FALSE

\* TwoLockQueue::new: one sentinel, head and tail both designate it, len 0.
QueueNew ==
    /\ node = (0 :> NodeEmpty)
    /\ head = 0
    /\ tail = 0
    /\ len = 0
    /\ headLock = 0
    /\ tailLock = 0
    /\ headPoisoned = FALSE

PushInFlight(t) ==
    pc[t] \in {"push_lock", "push_link", "push_settail", "push_count", "push_unlock"}

NStarted == Cardinality(DOMAIN node) - 1

\* Every producer has made all its push calls and they have all returned.
AllPushed ==
    /\ Len(pushOrder) = MaxPush
    /\ \A t \in Threads : ~PushInFlight(t)

\* push, lines 65-66: allocate the node and keep a raw pointer to it.
PushStart(t, v) ==
    /\ pc[t] = "idle"
    /\ node' = (FreshNode :> NodeNew(v)) @@ node
    /\ val' = [val EXCEPT ![t] = v]
    /\ newp' = [newp EXCEPT ![t] = FreshNode]
    /\ npush' = [npush EXCEPT ![t] = @ + 1]
    /\ pc' = [pc EXCEPT ![t] = "push_lock"]
    /\ UNCHANGED << head, tail, len, headLock, tailLock, headPoisoned, res,
                    pushOrder, popOrder, quiet, drained, uaf >>

\* Variant of PushLock: the tail lock does not exclude other pushes.
PushLock_NoExclusion(t) ==
    /\ pc[t] = "push_lock"
    /\ tailLock' = t
    /\ pushOrder' = Append(pushOrder, val[t])
    /\ pc' = [pc EXCEPT ![t] = "push_link"]
    /\ UNCHANGED << node, head, tail, len, headLock, headPoisoned, val, newp,
                    res, popOrder, npush, quiet, drained, uaf >>

\* push, line 68: self.tail.lock().unwrap().  No code path panics while
\* holding the tail guard, so the tail mutex is never poisoned.
PushLock(t) ==
    /\ pc[t] = "push_lock"
    /\ tailLock = 0
    /\ tailLock' = t
    /\ pushOrder' = Append(pushOrder, val[t])
    /\ pc' = [pc EXCEPT ![t] = "push_link"]
    /\ UNCHANGED << node, head, tail, len, headLock, headPoisoned, val, newp,
                    res, popOrder, npush, quiet, drained, uaf >>

\* Variant of PushLink: the new node is attached to the head node.
PushLink_ThroughHead(t) ==
    /\ pc[t] = "push_link"
    /\ node' = [node EXCEPT ![head].next = Some(newp[t])]
    /\ pc' = [pc EXCEPT ![t] = "push_settail"]
    /\ UNCHANGED << head, tail, len, headLock, tailLock, headPoisoned, val,
                    newp, res, pushOrder, popOrder, npush, quiet, drained, uaf >>

\* Variant of PushLink: the store of the new node is left out.
PushLink_SkipsLink(t) ==
    /\ pc[t] = "push_link"
    /\ pc' = [pc EXCEPT ![t] = "push_settail"]
    /\ UNCHANGED << node, head, tail, len, headLock, tailLock, headPoisoned, val,
                    newp, res, pushOrder, popOrder, npush, quiet, drained, uaf >>

\* push, line 71: tail.as_mut().next = Some(new_node).  A write through a
\* pointer to a freed node is undefined behaviour: the store may land in the
\* freed cell or the thread may fault.
PushLink(t) ==
    /\ pc[t] = "push_link"
    /\ IF node[tail].st = "live"
       THEN /\ node' = [node EXCEPT ![tail].next = Some(newp[t])]
            /\ pc' = [pc EXCEPT ![t] = "push_settail"]
            /\ UNCHANGED uaf
       ELSE /\ uaf' = TRUE
            /\ \/ /\ node' = [node EXCEPT ![tail].next = Some(newp[t])]
                  /\ pc' = [pc EXCEPT ![t] = "push_settail"]
               \/ /\ pc' = [pc EXCEPT ![t] = "crashed"]
                  /\ UNCHANGED node
    /\ UNCHANGED << head, tail, len, headLock, tailLock, headPoisoned, val,
                    newp, res, pushOrder, popOrder, npush, quiet, drained >>

\* Variant of PushSetTail: the tail pointer is not moved to the new node.
PushSetTail_NoRepoint(t) ==
    /\ pc[t] = "push_settail"
    /\ pc' = [pc EXCEPT ![t] = "push_count"]
    /\ UNCHANGED << node, head, tail, len, headLock, tailLock, headPoisoned, val,
                    newp, res, pushOrder, popOrder, npush, quiet, drained, uaf >>

\* Variant of PushSetTail: the tail guard is dropped right after the repoint.
PushSetTail_Unlocks(t) ==
    /\ pc[t] = "push_settail"
    /\ tail' = newp[t]
    /\ tailLock' = 0
    /\ pc' = [pc EXCEPT ![t] = "push_count"]
    /\ UNCHANGED << node, head, len, headLock, headPoisoned, val,
                    newp, res, pushOrder, popOrder, npush, quiet, drained, uaf >>

\* push, line 72: *tail = new_ptr.
PushSetTail(t) ==
    /\ pc[t] = "push_settail"
    /\ tail' = newp[t]
    /\ pc' = [pc EXCEPT ![t] = "push_count"]
    /\ UNCHANGED << node, head, len, headLock, tailLock, headPoisoned, val,
                    newp, res, pushOrder, popOrder, npush, quiet, drained, uaf >>

\* Variant of PushCount: the counter is not incremented.
PushCount_NoIncrement(t) ==
    /\ pc[t] = "push_count"
    /\ pc' = [pc EXCEPT ![t] = "push_unlock"]
    /\ UNCHANGED << node, head, tail, len, headLock, tailLock, headPoisoned, val,
                    newp, res, pushOrder, popOrder, npush, quiet, drained, uaf >>

\* push, line 75: self.len.fetch_add(1, SeqCst), the tail guard still in scope.
PushCount(t) ==
    /\ pc[t] = "push_count"
    /\ len' = len + 1
    /\ pc' = [pc EXCEPT ![t] = "push_unlock"]
    /\ UNCHANGED << node, head, tail, headLock, tailLock, headPoisoned, val,
                    newp, res, pushOrder, popOrder, npush, quiet, drained, uaf >>

\* push, line 76: the guard is dropped at the end of the function.
PushUnlock(t) ==
    /\ pc[t] = "push_unlock"
    /\ tailLock' = 0
    /\ pc' = [pc EXCEPT ![t] = "idle"]
    /\ UNCHANGED << node, head, tail, len, headLock, headPoisoned, val, newp,
                    res, pushOrder, popOrder, npush, quiet, drained, uaf >>

\* pop, lines 78-79: the call is made and finds the head lock taken, or is
\* not granted it at once: the thread waits in lock().
PopStart(t) ==
    /\ pc[t] = "idle"
    /\ pc' = [pc EXCEPT ![t] = "pop_lock"]
    /\ UNCHANGED << node, head, tail, len, headLock, tailLock, headPoisoned, val,
                    newp, res, pushOrder, popOrder, npush, quiet, drained, uaf >>

\* Variant of PopLock: the head lock does not exclude other pops.
PopLock_NoExclusion(t) ==
    /\ pc[t] \in {"idle", "pop_lock"}
    /\ pc' = [pc EXCEPT ![t] = "pop_load"]
    /\ headLock' = t
    /\ UNCHANGED << node, head, tail, len, tailLock, headPoisoned, val, newp,
                    res, pushOrder, popOrder, npush, quiet, drained, uaf >>

\* pop, line 79: self.head.lock().unwrap(); a poisoned mutex makes unwrap panic.
\* The lock is granted to a thread that has been waiting for it, or at once
\* to a thread that makes the call when the lock is free.
PopLock(t) ==
    /\ pc[t] \in {"idle", "pop_lock"}
    /\ headLock = 0
    /\ IF headPoisoned
       THEN /\ pc' = [pc EXCEPT ![t] = "panicked"]
            /\ UNCHANGED headLock
       ELSE /\ pc' = [pc EXCEPT ![t] = "pop_load"]
            /\ headLock' = t
    /\ UNCHANGED << node, head, tail, len, tailLock, headPoisoned, val, newp,
                    res, pushOrder, popOrder, npush, quiet, drained, uaf >>

\* Variant of PopLoad: the counter is not compared with 0.
PopLoad_NoEmptyCheck(t) ==
    /\ pc[t] = "pop_load"
    /\ pc' = [pc EXCEPT ![t] = "pop_take"]
    /\ quiet' = [quiet EXCEPT ![t] = AllPushed]
    /\ UNCHANGED << node, head, tail, len, headLock, tailLock, headPoisoned,
                    val, newp, res, pushOrder, popOrder, npush, drained, uaf >>

\* pop, line 81: self.len.load(Acquire) == 0.
PopLoad(t) ==
    /\ pc[t] = "pop_load"
    /\ pc' = [pc EXCEPT ![t] = IF len = 0 THEN "pop_none" ELSE "pop_take"]
    /\ quiet' = [quiet EXCEPT ![t] = AllPushed]
    /\ UNCHANGED << node, head, tail, len, headLock, tailLock, headPoisoned,
                    val, newp, res, pushOrder, popOrder, npush, drained, uaf >>

\* Variant of PopNone: the head guard is kept.
PopNone_KeepsLock(t) ==
    /\ pc[t] = "pop_none"
    /\ res' = [res EXCEPT ![t] = None]
    /\ drained' = (drained \/ quiet[t])
    /\ quiet' = [quiet EXCEPT ![t] = FALSE]
    /\ pc' = [pc EXCEPT ![t] = "idle"]
    /\ UNCHANGED << node, head, tail, len, headLock, tailLock, headPoisoned, val,
                    newp, pushOrder, popOrder, npush, uaf >>

\* pop, line 82: return None; the guard is dropped.
PopNone(t) ==
    /\ pc[t] = "pop_none"
    /\ res' = [res EXCEPT ![t] = None]
    /\ headLock' = 0
    /\ drained' = (drained \/ quiet[t])
    /\ quiet' = [quiet EXCEPT ![t] = FALSE]
    /\ pc' = [pc EXCEPT ![t] = "idle"]
    /\ UNCHANGED << node, head, tail, len, tailLock, headPoisoned, val, newp,
                    pushOrder, popOrder, npush, uaf >>

\* pop, line 85: *head = head.next.take().unwrap().  take() leaves the old
\* sentinel's next None, unwrap panics on None (the guard is dropped while
\* unwinding, which poisons the mutex), the assignment drops the old Box.
PopTake(t) ==
    /\ pc[t] = "pop_take"
    /\ IF node[head].next = None
       THEN /\ pc' = [pc EXCEPT ![t] = "panicked"]
            /\ headPoisoned' = TRUE
            /\ headLock' = 0
            /\ UNCHANGED << node, head >>
       ELSE /\ node' = [node EXCEPT ![head].next = None, ![head].st = "freed"]
            /\ head' = node[head].next[1]
            /\ pc' = [pc EXCEPT ![t] = "pop_count"]
            /\ UNCHANGED << headPoisoned, headLock >>
    /\ UNCHANGED << tail, len, tailLock, val, newp, res, pushOrder, popOrder,
                    npush, quiet, drained, uaf >>

\* Variant of PopCount: the counter is not decremented.
PopCount_NoDecrement(t) ==
    /\ pc[t] = "pop_count"
    /\ pc' = [pc EXCEPT ![t] = "pop_data"]
    /\ UNCHANGED << node, head, tail, len, headLock, tailLock, headPoisoned, val,
                    newp, res, pushOrder, popOrder, npush, quiet, drained, uaf >>

\* pop, line 86: self.len.fetch_sub(1, SeqCst).
PopCount(t) ==
    /\ pc[t] = "pop_count"
    /\ len' = len - 1
    /\ pc' = [pc EXCEPT ![t] = "pop_data"]
    /\ UNCHANGED << node, head, tail, headLock, tailLock, headPoisoned, val,
                    newp, res, pushOrder, popOrder, npush, quiet, drained, uaf >>

\* Variant of PopData: the data is copied out, not taken.
PopData_LeavesData(t) ==
    /\ pc[t] = "pop_data"
    /\ res' = [res EXCEPT ![t] = node[head].data]
    /\ popOrder' = popOrder \o node[head].data
    /\ headLock' = 0
    /\ quiet' = [quiet EXCEPT ![t] = FALSE]
    /\ pc' = [pc EXCEPT ![t] = "idle"]
    /\ UNCHANGED << node, head, tail, len, tailLock, headPoisoned, val, newp,
                    pushOrder, npush, drained, uaf >>

\* pop, lines 88-89: head.data.take() is returned and the guard is dropped.
PopData(t) ==
    /\ pc[t] = "pop_data"
    /\ res' = [res EXCEPT ![t] = node[head].data]
    /\ node' = [node EXCEPT ![head].data = None]
    /\ popOrder' = popOrder \o node[head].data
    /\ headLock' = 0
    /\ quiet' = [quiet EXCEPT ![t] = FALSE]
    /\ pc' = [pc EXCEPT ![t] = "idle"]
    /\ UNCHANGED << head, tail, len, tailLock, headPoisoned, val, newp,
                    pushOrder, npush, drained, uaf >>

\* len(), lines 91-93: one atomic load, no lock.
QueueLen == len

\* Variant of LenCall: len() reads the counter under the head lock.
LenCall_TakesHeadLock ==
    /\ headLock = 0
    /\ lenSeen' = QueueLen
    /\ UNCHANGED << qvars, log, dvars >>

\* len, lines 91-93: self.len.load(Ordering::Acquire), made by a thread that
\* is not itself inside push or pop.  It takes no lock.
LenCall ==
    /\ lenSeen' = QueueLen
    /\ UNCHANGED << qvars, log, dvars >>

\* ----------------------------------------------------- DoublyLinkList
\* Node::new(val), lines 26-35: next and prev default to None.
DNodeNew(v) == [val |-> v, next |-> None, prev |-> None, st |-> "live"]

\* usize, the type of len (line 47): 64 bits, held as four limbs of 16 bits,
\* the most significant first.
LimbBase == 2 ^ 16
Usize(n) == << 0, 0, 0, n >>
UsizeMax == << LimbBase - 1, LimbBase - 1, LimbBase - 1, LimbBase - 1 >>

\* u + 1 modulo 2^64
WrappingAdd1(u) ==
    IF u[4] < LimbBase - 1 THEN << u[1], u[2], u[3], u[4] + 1 >>
    ELSE IF u[3] < LimbBase - 1 THEN << u[1], u[2], u[3] + 1, 0 >>
    ELSE IF u[2] < LimbBase - 1 THEN << u[1], u[2] + 1, 0, 0 >>
    ELSE IF u[1] < LimbBase - 1 THEN << u[1] + 1, 0, 0, 0 >>
    ELSE Usize(0)

\* u - 1 modulo 2^64
WrappingSub1(u) ==
    IF u[4] > 0 THEN << u[1], u[2], u[3], u[4] - 1 >>
    ELSE IF u[3] > 0 THEN << u[1], u[2], u[3] - 1, LimbBase - 1 >>
    ELSE IF u[2] > 0 THEN << u[1], u[2] - 1, LimbBase - 1, LimbBase - 1 >>
    ELSE IF u[1] > 0 THEN << u[1] - 1, LimbBase - 1, LimbBase - 1, LimbBase - 1 >>
    ELSE UsizeMax

\* The build profiles: `+= 1` and `-= 1` on usize panic on overflow in a
\* debug build and wrap in a release build.
Builds == {"debug", "release"}

\* DoublyLinkList::new, lines 37-48: head and tail None, len 0.
ListNew ==
    /\ dnode = << >>
    /\ lists = << [head |-> None, tail |-> None, len |-> Usize(0)] >>

\* The nodes a Box owns through next links: dropping the Box frees them all.
RECURSIVE Owned(_, _, _)
Owned(h, o, fuel) ==
    IF o = None \/ fuel = 0 THEN {}
    ELSE {o[1]} \cup Owned(h, h[o[1]].next, fuel - 1)

DropBox(h, o) ==
    [i \in DOMAIN h |->
        IF i \in Owned(h, o, Cardinality(DOMAIN h))
        THEN [h[i] EXCEPT !.st = "freed"] ELSE h[i]]

\* Dropping the Box o would free a node that is freed already.
AnyFreed(h, o) == \E i \in Owned(h, o, Cardinality(DOMAIN h)) : h[i].st = "freed"

\* What a call leaves: the heap h, the fields l of the list, what it
\* returned (r is << >> when nothing was returned, else << value >>), how it
\* ended (st is "ok", "panicked", or "ub" when it used a freed node, after
\* which nothing is known), and whether an overflow check was met (ovf).
Outcome(h, l, r, st, ovf) == [h |-> h, l |-> l, r |-> r, st |-> st, ovf |-> ovf]

\* len(), lines 51-53
ListLen(i) == lists[i].len

\* push_back, lines 55-72, in build b.  Storing into tail.next or self.head
\* drops the Box that was there.
push_back(h, l, v, b) ==
    LET p == Cardinality(DOMAIN h) + 1
        new_box == [DNodeNew(v) EXCEPT !.prev = l.tail]
        ovf == l.len = UsizeMax
        len1 == IF ovf /\ b = "debug" THEN l.len ELSE WrappingAdd1(l.len)
        st1 == IF ovf /\ b = "debug" THEN "panicked" ELSE "ok"
    IN  IF l.tail # None
        THEN LET t == l.tail[1]
             IN  IF h[t].st = "freed" \/ AnyFreed(h, h[t].next)
                 THEN Outcome(h, l, << >>, "ub", FALSE)
                 ELSE Outcome((p :> new_box)
                                 @@ [DropBox(h, h[t].next) EXCEPT ![t].next = Some(p)],
                              [head |-> l.head, tail |-> Some(p), len |-> len1],
                              << >>, st1, ovf)
        ELSE IF AnyFreed(h, l.head)
             THEN Outcome(h, l, << >>, "ub", FALSE)
             ELSE Outcome((p :> new_box) @@ DropBox(h, l.head),
                          [head |-> Some(p), tail |-> Some(p), len |-> len1],
                          << >>, st1, ovf)

\* pop_back, lines 74-90, in build b.  The removed Box is dropped after its
\* val is moved out.
pop_back(h, l, b) ==
    IF l.tail = None
    THEN Outcome(h, l, << None >>, "ok", FALSE)
    ELSE LET ovf == l.len = Usize(0)
             l1 == [l EXCEPT !.len = WrappingSub1(l.len)]
             t == l.tail[1]
         IN  IF ovf /\ b = "debug"
             THEN Outcome(h, l, << >>, "panicked", TRUE)
             ELSE IF h[t].st = "freed"
             THEN Outcome(h, l1, << >>, "ub", ovf)
             ELSE LET prev == h[t].prev
                  IN  IF prev # None
                      THEN IF h[prev[1]].st = "freed"
                           THEN Outcome(h, l1, << >>, "ub", ovf)
                           ELSE LET n == h[prev[1]].next
                                IN  IF n = None     \* unwrap
                                    THEN Outcome(h, l1, << >>, "panicked", ovf)
                                    ELSE IF AnyFreed(h, n)
                                    THEN Outcome(h, l1, << >>, "ub", ovf)
                                    ELSE Outcome(
                                        DropBox([h EXCEPT ![prev[1]].next = None], n),
                                        [l1 EXCEPT !.tail = prev],
                                        << Some(h[n[1]].val) >>, "ok", ovf)
                      ELSE IF l.head = None     \* unwrap
                           THEN Outcome(h, l1, << >>, "panicked", ovf)
                           ELSE IF AnyFreed(h, l.head)
                           THEN Outcome(h, l1, << >>, "ub", ovf)
                           ELSE Outcome(DropBox(h, l.head),
                                        [l1 EXCEPT !.head = None, !.tail = None],
                                        << Some(h[l.head[1]].val) >>, "ok", ovf)

\* Variant of push_front: tail is not set when the list was empty.
push_front_no_tail(h, l, v, b) ==
    LET p == Cardinality(DOMAIN h) + 1
    IN  IF l.head # None
        THEN Outcome((p :> [DNodeNew(v) EXCEPT !.next = l.head])
                        @@ [h EXCEPT ![l.head[1]].prev = Some(p)],
                     [head |-> Some(p), tail |-> l.tail, len |-> WrappingAdd1(l.len)],
                     << >>, "ok", FALSE)
        ELSE Outcome((p :> DNodeNew(v)) @@ h,
                     [head |-> Some(p), tail |-> l.tail, len |-> WrappingAdd1(l.len)],
                     << >>, "ok", FALSE)

\* push_front, lines 92-110, in build b.
push_front(h, l, v, b) ==
    LET p == Cardinality(DOMAIN h) + 1
        ovf == l.len = UsizeMax
        len1 == IF ovf /\ b = "debug" THEN l.len ELSE WrappingAdd1(l.len)
        st1 == IF ovf /\ b = "debug" THEN "panicked" ELSE "ok"
    IN  IF l.head # None
        THEN IF h[l.head[1]].st = "freed"
             THEN Outcome(h, l, << >>, "ub", FALSE)
             ELSE Outcome((p :> [DNodeNew(v) EXCEPT !.next = l.head])
                             @@ [h EXCEPT ![l.head[1]].prev = Some(p)],
                          [head |-> Some(p), tail |-> l.tail, len |-> len1],
                          << >>, st1, ovf)
        ELSE Outcome((p :> DNodeNew(v)) @@ h,
                     [head |-> Some(p), tail |-> Some(p), len |-> len1],
                     << >>, st1, ovf)

\* pop_front, lines 112-128, in build b.  head.take() comes first: when
\* `self.len -= 1` panics, head is left None and old_head and all it owns
\* are dropped by the unwinding.  Else old_head is dropped after next and
\* val are moved out.
pop_front(h, l, b) ==
    IF l.head = None
    THEN Outcome(h, l, << None >>, "ok", FALSE)
    ELSE LET old_head == l.head[1]
             ovf == l.len = Usize(0)
             l1 == [l EXCEPT !.len = WrappingSub1(l.len)]
         IN  IF ovf /\ b = "debug"
             THEN IF AnyFreed(h, l.head)
                  THEN Outcome(h, l, << >>, "ub", TRUE)
                  ELSE Outcome(DropBox(h, l.head), [l EXCEPT !.head = None],
                               << >>, "panicked", TRUE)
             ELSE IF h[old_head].st = "freed"
             THEN Outcome(h, l1, << >>, "ub", ovf)
             ELSE LET next == h[old_head].next
                  IN  IF next # None
                      THEN IF h[next[1]].st = "freed"
                           THEN Outcome(h, l1, << >>, "ub", ovf)
                           ELSE Outcome([h EXCEPT ![old_head].next = None,
                                                  ![old_head].st = "freed",
                                                  ![next[1]].prev = None],
                                        [l1 EXCEPT !.head = next],
                                        << Some(h[old_head].val) >>, "ok", ovf)
                      ELSE Outcome([h EXCEPT ![old_head].st = "freed"],
                                   [l1 EXCEPT !.head = None, !.tail = None],
                                   << Some(h[old_head].val) >>, "ok", ovf)

\* The ids of the nodes a head Box owns, in next order.
RECURSIVE DChainFrom(_, _, _)
DChainFrom(h, o, fuel) ==
    IF o = None \/ fuel = 0 THEN << >>
    ELSE << o[1] >> \o DChainFrom(h, h[o[1]].next, fuel - 1)

\* derive(Clone), lines 26 and 37.  Option<Box<Node<T>>>::clone allocates a
\* new Box for every node of the chain and clones val and next into it;
\* Option<NonNull<Node<T>>> is Copy, so prev of every new node and tail of
\* the new list are the addresses held by the list cloned from.  The l of
\* the outcome is the new list.
clone(h, l) ==
    LET chain == DChainFrom(h, l.head, Cardinality(DOMAIN h))
        n == Len(chain)
        base == Cardinality(DOMAIN h)
        copy == [i \in (base + 1) .. (base + n) |->
                    [val  |-> h[chain[i - base]].val,
                     next |-> IF i - base < n THEN Some(i + 1) ELSE None,
                     prev |-> h[chain[i - base]].prev,
                     st   |-> "live"]]
    IN  IF \E k \in 1 .. n : h[chain[k]].st = "freed"
        THEN Outcome(h, l, << >>, "ub", FALSE)
        ELSE Outcome(copy @@ h,
                     [head |-> IF n = 0 THEN None ELSE Some(base + 1),
                      tail |-> l.tail,
                      len  |-> l.len],
                     << >>, "ok", FALSE)

\* A call on list i ends with outcome o in build b.  No call follows a
\* panic or a use of a freed node.  The build is known once an overflow
\* check has been met: until then the two builds do the same.
ListStep(i, o, b) ==
    /\ dstatus = "ok"
    /\ build \in {"any", b}
    /\ dnode' = o.h
    /\ lists' = [lists EXCEPT ![i] = o.l]
    /\ dres' = IF o.r = << >> THEN dres ELSE o.r[1]
    /\ dstatus' = o.st
    /\ build' = IF o.ovf THEN b ELSE build

PushBack(i, v) == \E b \in Builds : ListStep(i, push_back(dnode, lists[i], v, b), b)

PopBack(i) == \E b \in Builds : ListStep(i, pop_back(dnode, lists[i], b), b)

\* Variant of PushFront: tail is not set when the list was empty.
PushFront_NoTail(i, v) ==
    \E b \in Builds : ListStep(i, push_front_no_tail(dnode, lists[i], v, b), b)

PushFront(i, v) == \E b \in Builds : ListStep(i, push_front(dnode, lists[i], v, b), b)

PopFront(i) == \E b \in Builds : ListStep(i, pop_front(dnode, lists[i], b), b)

\* let c = list.clone(): the clone is a new list of the program.
Clone(i) ==
    LET o == clone(dnode, lists[i])
    IN  /\ dstatus = "ok"
        /\ dnode' = o.h
        /\ lists' = IF o.st = "ok" THEN Append(lists, o.l) ELSE lists
        /\ dstatus' = o.st
        /\ UNCHANGED << dres, build >>

\* How Display writes one element ("{}" of an integer).
ValStr(v) == << "0", "1", "2", "3", "4", "5", "6", "7", "8", "9" >>[v + 1]

\* Display::fmt, lines 131-146: the pieces written, in order.
RECURSIVE FmtFrom(_, _)
FmtFrom(current, fuel) ==
    IF current = None \/ fuel = 0 THEN << >>
    ELSE << ValStr(dnode[current[1]].val) >>
         \o (IF dnode[current[1]].next # None THEN << ", " >> ELSE << >>)
         \o FmtFrom(dnode[current[1]].next, fuel - 1)

Display(i) ==
    << "LinkList [" >> \o FmtFrom(lists[i].head, Cardinality(DOMAIN dnode) + 1) \o << "]" >>

\* The same calls on the reference double-ended sequences, one for each list.
RefPushBack(i, v) == model' = [model EXCEPT ![i] = Append(@, v)] /\ UNCHANGED mres
RefPushFront(i, v) == model' = [model EXCEPT ![i] = << v >> \o @] /\ UNCHANGED mres
RefPopBack(i) ==
    IF model[i] = << >> THEN mres' = None /\ UNCHANGED model
    ELSE /\ mres' = Some(model[i][Len(model[i])])
         /\ model' = [model EXCEPT ![i] = SubSeq(@, 1, Len(@) - 1)]
RefPopFront(i) ==
    IF model[i] = << >> THEN mres' = None /\ UNCHANGED model
    ELSE /\ mres' = Some(Head(model[i]))
         /\ model' = [model EXCEPT ![i] = Tail(@)]
RefClone(i) == model' = Append(model, model[i]) /\ UNCHANGED mres

Init ==
    /\ QueueNew
    /\ pc = [t \in Threads |-> "idle"]
    /\ val = [t \in Threads |-> 0]
    /\ newp = [t \in Threads |-> 0]
    /\ res = [t \in Threads |-> None]
    /\ pushOrder = << >>
    /\ popOrder = << >>
    /\ npush = [t \in Threads |-> 0]
    /\ quiet = [t \in Threads |-> FALSE]
    /\ drained = FALSE
    /\ uaf = FALSE
    /\ log = << >>
    /\ lenSeen = 0
    /\ ListNew
    /\ dres = None
    /\ dstatus = "ok"
    /\ build = "any"
    /\ model = << << >> >>
    /\ mres = None
    /\ dops = 0

\* Threads calling push and pop concurrently, each pushing tagged values.
Next ==
    \/ \E t \in Threads :
          /\ NStarted < MaxPush
          /\ PushStart(t, Tag(t, npush[t])) /\ UNCHANGED << log, lenSeen, dvars >>
    \/ \E t \in Threads : PushLock(t) /\ UNCHANGED << log, lenSeen, dvars >>
    \/ \E t \in Threads : PushLink(t) /\ UNCHANGED << log, lenSeen, dvars >>
    \/ \E t \in Threads : PushSetTail(t) /\ UNCHANGED << log, lenSeen, dvars >>
    \/ \E t \in Threads : PushCount(t) /\ UNCHANGED << log, lenSeen, dvars >>
    \/ \E t \in Threads : PushUnlock(t) /\ UNCHANGED << log, lenSeen, dvars >>
    \/ \E t \in Threads : PopLock(t) /\ UNCHANGED << log, lenSeen, dvars >>
    \/ \E t \in Threads : PopLoad(t) /\ UNCHANGED << log, lenSeen, dvars >>
    \/ \E t \in Threads : PopNone(t) /\ UNCHANGED << log, lenSeen, dvars >>
    \/ \E t \in Threads : PopTake(t) /\ UNCHANGED << log, lenSeen, dvars >>
    \/ \E t \in Threads : PopCount(t) /\ UNCHANGED << log, lenSeen, dvars >>
    \/ \E t \in Threads : PopData(t) /\ UNCHANGED << log, lenSeen, dvars >>

Spec == Init /\ [][Next]_vars

\* The threads that make calls under fair scheduling.
FairCallers == {1, 2}

\* Two threads calling push and pop concurrently, a pop that does not get the
\* head lock at once waiting for it.  Scheduling is fair: a thread that can
\* take its next step inside a call eventually takes it, and a thread waiting
\* for a lock that is free again and again is eventually granted it.
NextFair ==
    \/ \E t \in FairCallers :
          /\ NStarted < MaxFairPush
          /\ PushStart(t, Tag(t, npush[t])) /\ UNCHANGED << log, lenSeen, dvars >>
    \/ \E t \in FairCallers : PushLock(t) /\ UNCHANGED << log, lenSeen, dvars >>
    \/ \E t \in FairCallers : PushLink(t) /\ UNCHANGED << log, lenSeen, dvars >>
    \/ \E t \in FairCallers : PushSetTail(t) /\ UNCHANGED << log, lenSeen, dvars >>
    \/ \E t \in FairCallers : PushCount(t) /\ UNCHANGED << log, lenSeen, dvars >>
    \/ \E t \in FairCallers : PushUnlock(t) /\ UNCHANGED << log, lenSeen, dvars >>
    \/ \E t \in FairCallers : PopStart(t) /\ UNCHANGED << log, lenSeen, dvars >>
    \/ \E t \in FairCallers : PopLock(t) /\ UNCHANGED << log, lenSeen, dvars >>
    \/ \E t \in FairCallers : PopLoad(t) /\ UNCHANGED << log, lenSeen, dvars >>
    \/ \E t \in FairCallers : PopNone(t) /\ UNCHANGED << log, lenSeen, dvars >>
    \/ \E t \in FairCallers : PopTake(t) /\ UNCHANGED << log, lenSeen, dvars >>
    \/ \E t \in FairCallers : PopCount(t) /\ UNCHANGED << log, lenSeen, dvars >>
    \/ \E t \in FairCallers : PopData(t) /\ UNCHANGED << log, lenSeen, dvars >>

\* The steps of thread t inside a call that wait for nothing.
Continue(t) ==
    /\ \/ PushLink(t) \/ PushSetTail(t) \/ PushCount(t) \/ PushUnlock(t)
       \/ PopLoad(t) \/ PopNone(t) \/ PopTake(t) \/ PopCount(t) \/ PopData(t)
    /\ UNCHANGED << log, lenSeen, dvars >>

\* Thread t, waiting in lock(), is granted the lock.
Acquire(t) ==
    /\ \/ PushLock(t)
       \/ pc[t] = "pop_lock" /\ PopLock(t)
    /\ UNCHANGED << log, lenSeen, dvars >>

SpecFair ==
    /\ Init
    /\ [][NextFair]_vars
    /\ \A t \in Threads : WF_vars(Continue(t))
    /\ \A t \in Threads : SF_vars(Acquire(t))

\* Threads calling push and pop concurrently while another thread calls
\* len() at any moment.
NextObs ==
    \/ \E t \in Threads :
          /\ NStarted < MaxObsPush
          /\ PushStart(t, Tag(t, npush[t])) /\ UNCHANGED << log, lenSeen, dvars >>
    \/ \E t \in Threads : PushLock(t) /\ UNCHANGED << log, lenSeen, dvars >>
    \/ \E t \in Threads : PushLink(t) /\ UNCHANGED << log, lenSeen, dvars >>
    \/ \E t \in Threads : PushSetTail(t) /\ UNCHANGED << log, lenSeen, dvars >>
    \/ \E t \in Threads : PushCount(t) /\ UNCHANGED << log, lenSeen, dvars >>
    \/ \E t \in Threads : PushUnlock(t) /\ UNCHANGED << log, lenSeen, dvars >>
    \/ \E t \in Threads : PopLock(t) /\ UNCHANGED << log, lenSeen, dvars >>
    \/ \E t \in Threads : PopLoad(t) /\ UNCHANGED << log, lenSeen, dvars >>
    \/ \E t \in Threads : PopNone(t) /\ UNCHANGED << log, lenSeen, dvars >>
    \/ \E t \in Threads : PopTake(t) /\ UNCHANGED << log, lenSeen, dvars >>
    \/ \E t \in Threads : PopCount(t) /\ UNCHANGED << log, lenSeen, dvars >>
    \/ \E t \in Threads : PopData(t) /\ UNCHANGED << log, lenSeen, dvars >>
    \/ LenCall

SpecObs == Init /\ [][NextObs]_vars

\* One thread calling push and pop one after the other, with any values.
NextSeq ==
    \/ \E v \in Vals :
          /\ npush[1] < MaxSeqPush /\ Len(log) < MaxSeqOps
          /\ PushStart(1, v) /\ UNCHANGED << log, lenSeen, dvars >>
    \/ PushLock(1) /\ UNCHANGED << log, lenSeen, dvars >>
    \/ PushLink(1) /\ UNCHANGED << log, lenSeen, dvars >>
    \/ PushSetTail(1) /\ UNCHANGED << log, lenSeen, dvars >>
    \/ PushCount(1) /\ UNCHANGED << log, lenSeen, dvars >>
    \/ /\ PushUnlock(1)
       /\ log' = Append(log, [op |-> "push", v |-> Some(val[1])])
       /\ UNCHANGED << lenSeen, dvars >>
    \/ Len(log) < MaxSeqOps /\ PopLock(1) /\ UNCHANGED << log, lenSeen, dvars >>
    \/ PopLoad(1) /\ UNCHANGED << log, lenSeen, dvars >>
    \/ /\ PopNone(1)
       /\ log' = Append(log, [op |-> "pop", v |-> res'[1]])
       /\ UNCHANGED << lenSeen, dvars >>
    \/ PopTake(1) /\ UNCHANGED << log, lenSeen, dvars >>
    \/ PopCount(1) /\ UNCHANGED << log, lenSeen, dvars >>
    \/ /\ PopData(1)
       /\ log' = Append(log, [op |-> "pop", v |-> res'[1]])
       /\ UNCHANGED << lenSeen, dvars >>

SpecSeq == Init /\ [][NextSeq]_vars

\* Any sequence of calls on one DoublyLinkList, mirrored on the reference sequence.
ListCall == dops < MaxListOps /\ dops' = dops + 1 /\ UNCHANGED << qvars, log, lenSeen >>

NextList ==
    \/ \E v \in ListVals : ListCall /\ PushBack(1, v) /\ RefPushBack(1, v)
    \/ \E v \in ListVals : ListCall /\ PushFront(1, v) /\ RefPushFront(1, v)
    \/ ListCall /\ PopBack(1) /\ RefPopBack(1)
    \/ ListCall /\ PopFront(1) /\ RefPopFront(1)

SpecList == Init /\ [][NextList]_vars

\* Any sequence of calls, clone() included, on a list and on its clones.
CloneCall == dops < MaxCloneOps /\ dops' = dops + 1 /\ UNCHANGED << qvars, log, lenSeen >>

NextClone ==
    \/ \E i \in 1 .. Len(lists) : \E v \in ListVals :
          CloneCall /\ PushBack(i, v) /\ RefPushBack(i, v)
    \/ \E i \in 1 .. Len(lists) : \E v \in ListVals :
          CloneCall /\ PushFront(i, v) /\ RefPushFront(i, v)
    \/ \E i \in 1 .. Len(lists) : CloneCall /\ PopBack(i) /\ RefPopBack(i)
    \/ \E i \in 1 .. Len(lists) : CloneCall /\ PopFront(i) /\ RefPopFront(i)
    \/ \E i \in 1 .. Len(lists) :
          Len(lists) < MaxLists /\ CloneCall /\ Clone(i) /\ RefClone(i)

SpecClone == Init /\ [][NextClone]_vars

\* One thread pushing while another thread pops.
NextSPSC ==
    \/ /\ NStarted < MaxPush
       /\ PushStart(1, Tag(1, npush[1])) /\ UNCHANGED << log, lenSeen, dvars >>
    \/ PushLock(1) /\ UNCHANGED << log, lenSeen, dvars >>
    \/ PushLink(1) /\ UNCHANGED << log, lenSeen, dvars >>
    \/ PushSetTail(1) /\ UNCHANGED << log, lenSeen, dvars >>
    \/ PushCount(1) /\ UNCHANGED << log, lenSeen, dvars >>
    \/ PushUnlock(1) /\ UNCHANGED << log, lenSeen, dvars >>
    \/ PopLock(2) /\ UNCHANGED << log, lenSeen, dvars >>
    \/ PopLoad(2) /\ UNCHANGED << log, lenSeen, dvars >>
    \/ PopNone(2) /\ UNCHANGED << log, lenSeen, dvars >>
    \/ PopTake(2) /\ UNCHANGED << log, lenSeen, dvars >>
    \/ PopCount(2) /\ UNCHANGED << log, lenSeen, dvars >>
    \/ PopData(2) /\ UNCHANGED << log, lenSeen, dvars >>

SpecSPSC == Init /\ [][NextSPSC]_vars

\* One producer and one consumer under fair scheduling: a thread inside a
\* call eventually takes its next step.  Nothing makes a thread begin a call.
SpecSPSCFair ==
    /\ Init
    /\ [][NextSPSC]_vars
    /\ WF_vars(Continue(1))
    /\ WF_vars(PushLock(1) /\ UNCHANGED << log, lenSeen, dvars >>)
    /\ WF_vars(Continue(2))

\* ------------------------------------------------------------ properties
Range(s) == {s[i] : i \in DOMAIN s}
NoDup(s) == \A i, j \in DOMAIN s : s[i] = s[j] => i = j
IsPrefix(s, r) == Len(s) <= Len(r) /\ \A i \in DOMAIN s : s[i] = r[i]
Quiescent == \A t \in Threads : pc[t] = "idle"

\* push calls that have returned, and pop calls that returned a value
CompletedPushes ==
    Len(pushOrder)
    - Cardinality({t \in Threads :
                     pc[t] \in {"push_link", "push_settail", "push_count", "push_unlock"}})
SuccessfulPops == Len(popOrder)

\* The number of leading push calls of the single thread's log.
RECURSIVE LeadingPushes(_)
LeadingPushes(l) ==
    IF l = << >> \/ Head(l).op # "push" THEN 0 ELSE 1 + LeadingPushes(Tail(l))

\* C1: single thread, fresh queue: after n pushes with no pop in between, the
\* i-th following pop (no push among them) returns the i-th value pushed for
\* i <= n, and every pop after the n-th returns None.
C1_FifoSingleThread ==
    LET n == LeadingPushes(log)
    IN  \A i \in DOMAIN log :
            (i > n /\ \A j \in (n + 1) .. i : log[j].op = "pop")
            => log[i].v = (IF i - n <= n THEN log[i - n].v ELSE None)

C1_Witness ==
    /\ Len(log) = 2 * MaxSeqPush + 1
    /\ LeadingPushes(log) = MaxSeqPush
    /\ \A i \in (MaxSeqPush + 1) .. Len(log) : log[i].op = "pop"
    /\ log[1].v # log[2].v
    /\ log[Len(log)].v = None
    /\ log[Len(log) - 1].v # None

\* The values handed to the push calls made so far.
PushedValues == UNION {{Tag(t, k) : k \in 0 .. (npush[t] - 1)} : t \in Threads}

\* C2: no value is returned by two pops, no pop returns a value that was not
\* pushed, and once every push has returned and a pop that began after that
\* has returned None, the values popped are exactly the values pushed, each
\* once, MaxPush of them.
C2_NoLossNoDup ==
    /\ NoDup(popOrder)
    /\ Range(popOrder) \subseteq PushedValues
    /\ drained => /\ Range(popOrder) = Range(pushOrder)
                  /\ Len(popOrder) = MaxPush
                  /\ Len(pushOrder) = MaxPush

C2_Witness ==
    /\ drained
    /\ Quiescent
    /\ Len(popOrder) = MaxPush
    /\ \A t \in Threads : npush[t] >= 1
    /\ popOrder[1] = Tag(2, 0)

\* C3: one producer, one consumer: what the consumer has collected is always
\* the first values the producer pushed, in its order, and when the producer
\* is done and the consumer finds the counter 0, it has collected all of them.
C3_SpscFifo ==
    /\ popOrder = [i \in 1 .. Len(popOrder) |-> Tag(1, i - 1)]
    /\ (AllPushed /\ pc[2] = "pop_none" /\ quiet[2]) => Len(popOrder) = MaxPush

C3_Witness ==
    /\ Len(popOrder) = MaxPush
    /\ pc[1] = "push_unlock"
    /\ pc[2] = "idle"
    /\ res[2] = Some(Tag(1, MaxPush - 1))

\* C4: when no push and no pop is in flight, len() is the number of push
\* calls that returned minus the number of pop calls that returned a value.
C4_LenAtQuiescence ==
    Quiescent => QueueLen = CompletedPushes - SuccessfulPops

C4_Witness ==
    /\ Quiescent
    /\ CompletedPushes = MaxPush
    /\ SuccessfulPops = 1
    /\ QueueLen = MaxPush - 1
    /\ \E t \in Threads : res[t] = None /\ npush[t] >= 1
\* C5: no call panics or faults and no lock is poisoned; pops never outnumber
\* pushes, so draining ends; once a pop that began after the last push has
\* returned None, len() is 0, nothing is left after the sentinel, and no
\* later pop finds a value.
C5_StressSafe ==
    /\ \A t \in Threads : pc[t] \notin {"panicked", "crashed"}
    /\ ~headPoisoned
    /\ ~uaf
    /\ Len(popOrder) <= Len(pushOrder)
    /\ drained => /\ QueueLen = 0
                  /\ node[head].next = None
                  /\ \A t \in Threads : pc[t] \notin {"pop_take", "pop_count", "pop_data"}

C5_Witness ==
    /\ drained
    /\ \E t \in Threads : pc[t] = "pop_none" /\ res[t] = None
    /\ \E t \in Threads : pc[t] = "idle" /\ res[t] # None
    /\ Len(popOrder) = MaxPush

\* C6: the values popped, in the order the head lock was granted, are the
\* first values pushed, in the order the tail lock was granted.
C6_PopOrderIsPrefix == IsPrefix(popOrder, pushOrder)

C6_Witness ==
    /\ Len(popOrder) = MaxPush
    /\ pushOrder[1] = Tag(2, 0)
    /\ pushOrder[2] = Tag(1, 0)
    /\ pushOrder[3] = Tag(2, 1)

\* C7: a pop that reads the counter as 0 goes on to return None: its step out
\* of that read and its return leave the nodes, head, tail and the counter as
\* they are, the return yields None and releases the head lock, and the return
\* is always possible (it waits for nothing).
C7_PopOnEmptyStep ==
    \A t \in Threads :
        /\ (pc[t] = "pop_load" /\ len = 0 /\ pc'[t] # pc[t])
           => /\ pc'[t] = "pop_none"
              /\ UNCHANGED << node, head, tail, len >>
        /\ (pc[t] = "pop_none")
           => /\ ENABLED PopNone(t)
              /\ headLock = t
              /\ (pc'[t] # pc[t])
                 => /\ pc'[t] = "idle"
                    /\ res'[t] = None
                    /\ headLock' = 0
                    /\ ~headPoisoned'
                    /\ UNCHANGED << node, head, tail, len >>

C7_PopOnEmpty == [][C7_PopOnEmptyStep]_vars

C7_Witness ==
    \E t, u \in Threads :
        /\ pc[t] = "pop_none"
        /\ pc[u] = "push_count"
        /\ Len(popOrder) >= 1
        /\ node[head].next # None

\* C8: before any call, the queue is one live node with no data and no next
\* link, head and tail both designate it and len() is 0; a pop made first
\* returns None.
C8_FreshQueue ==
    /\ (log = << >> /\ pc[1] = "idle")
       => /\ DOMAIN node = {head}
          /\ node[head] = [data |-> None, next |-> None, st |-> "live"]
          /\ tail = head
          /\ QueueLen = 0
    /\ (log # << >> /\ log[1].op = "pop") => log[1].v = None

C8_Witness ==
    /\ Len(log) = 1
    /\ log[1] = [op |-> "pop", v |-> None]
    /\ pc[1] = "idle"
    /\ DOMAIN node = {head}

\* The reference sequence as Display would show it.
RECURSIVE ShowElems(_)
ShowElems(s) ==
    IF s = << >> THEN << >>
    ELSE << ValStr(Head(s)) >>
         \o (IF Len(s) > 1 THEN << ", " >> ELSE << >>)
         \o ShowElems(Tail(s))
Show(s) == << "LinkList [" >> \o ShowElems(s) \o << "]" >>

\* C9: after every call the list agrees with the reference sequence: a pop
\* returned what the reference returned, Display shows the reference's
\* elements front to back, and len() is its length.
C9_ListRefinesDeque ==
    /\ dstatus = "ok"
    /\ dres = mres
    /\ Display(1) = Show(model[1])
    /\ ListLen(1) = Usize(Len(model[1]))

C9_Witness ==
    /\ model[1] = << 1, 2 >>
    /\ dres = Some(2)
    /\ ListLen(1) = Usize(2)
    /\ dnode[lists[1].head[1]].prev = None
    /\ dnode[lists[1].tail[1]].prev = lists[1].head
    /\ Cardinality({i \in DOMAIN dnode : dnode[i].st = "freed"}) = 2

\* C10: the node tail designates is never a freed node and no push writes
\* into a freed node; when nothing follows the sentinel, tail designates the
\* sentinel itself.
C10_TailNeverDangles ==
    /\ node[tail].st = "live"
    /\ ~uaf
    /\ node[head].next = None => tail = head

C10_Witness ==
    /\ Len(popOrder) >= 1
    /\ head # 0
    /\ tail = head
    /\ node[0].st = "freed"
    /\ \E t \in Threads : pc[t] = "push_settail"
\* The nodes owned through head, sentinel first, following next links.
RECURSIVE ChainFrom(_, _)
ChainFrom(o, fuel) ==
    IF o = None \/ fuel = 0 THEN << >>
    ELSE << o[1] >> \o ChainFrom(node[o[1]].next, fuel - 1)
Chain == ChainFrom(Some(head), Cardinality(DOMAIN node))

\* C11: a pop that holds the head lock and has read the counter as greater
\* than 0 finds the next link of the head node present, so unwrap does not
\* panic and the head lock is never poisoned.
C11_NextPresentOnTake ==
    /\ \A t \in Threads :
          pc[t] = "pop_take" => /\ headLock = t
                                /\ node[head].next # None
                                /\ node[node[head].next[1]].st = "live"
    /\ \A t \in Threads : pc[t] # "panicked"
    /\ ~headPoisoned

C11_Witness ==
    \E t, u \in Threads :
        /\ pc[t] = "pop_take"
        /\ len = 1
        /\ pc[u] = "push_settail"
        /\ Len(Chain) = 3

\* C12 as claimed: in every state tail designates a node that is reachable
\* from head and whose next link is None.
C12_TailIsLastAlways ==
    /\ tail \in Range(Chain)
    /\ node[tail].next = None

\* C12 as amended: tail always designates a live node reachable from head,
\* and that node's next link is None except while a push is between attaching
\* its node (line 71) and repointing tail (line 72), when the next link of
\* the node tail designates is the node being pushed.
C12_TailIsLastOutsideRepoint ==
    /\ tail \in Range(Chain)
    /\ node[tail].st = "live"
    /\ IF \E t \in Threads : pc[t] = "push_settail"
       THEN \E t \in Threads :
               /\ pc[t] = "push_settail"
               /\ tailLock = t
               /\ node[tail].next = Some(newp[t])
               /\ node[newp[t]].next = None
       ELSE /\ node[tail].next = None
            /\ tail = Chain[Len(Chain)]

C12_Witness ==
    /\ tailLock = 0
    /\ headLock # 0
    /\ tail # head
    /\ tail = Chain[Len(Chain)]
    /\ Len(Chain) = 2
    /\ Len(popOrder) >= 1

\* C13: a push writes a next link only of the live last node of the chain,
\* whose link was None until then, and a link once set is never replaced by
\* another node (a pop only takes it, when it frees the node).
C13_ExclusiveAppendStep ==
    /\ \A t \in Threads :
          (pc[t] = "push_link" /\ pc'[t] # pc[t])
          => /\ tail = Chain[Len(Chain)]
             /\ node[tail].st = "live"
             /\ node[tail].next = None
             /\ node'[tail].next = Some(newp[t])
             /\ \A i \in DOMAIN node : i # tail => node'[i] = node[i]
    /\ \A i \in DOMAIN node :
          node[i].next # None => node'[i].next \in {node[i].next, None}
    /\ \A i \in DOMAIN node :
          node[i].st = "freed" => node'[i] = node[i]

C13_ExclusiveAppend == [][C13_ExclusiveAppendStep]_vars

C13_Witness ==
    \E t, u \in Threads :
        /\ t # u
        /\ pc[t] = "push_settail"
        /\ pc[u] = "push_lock"
        /\ node[tail].next = Some(newp[t])
        /\ tail # 0

\* C14: whenever neither lock is held, the counter is the number of nodes
\* after the sentinel.
C14_LenIsChainLength ==
    (headLock = 0 /\ tailLock = 0) => len = Len(Chain) - 1

C14_Witness ==
    /\ headLock = 0
    /\ tailLock = 0
    /\ len = 1
    /\ Len(Chain) = 2
    /\ Len(popOrder) = 1
    /\ \E t \in Threads : pc[t] = "push_lock"

\* The nodes of the chain whose data slot is None.
NoDataNodes == {i \in Range(Chain) : node[i].data = None}

\* C15 as claimed: in every state exactly one node of the chain has no data,
\* and it is the node head designates.
C15_OneSentinelAlways == NoDataNodes = {head}

\* C15 as amended: every node of the chain other than the one head designates
\* holds a value in every state; the node head designates has no data except
\* while a pop is between promoting a node (line 85) and taking its data
\* (line 88), so in particular whenever the head lock is free.
C15_OneSentinelOutsidePop ==
    /\ NoDataNodes \subseteq {head}
    /\ IF \E t \in Threads : pc[t] \in {"pop_count", "pop_data"}
       THEN /\ node[head].data # None
            /\ headLock # 0
       ELSE NoDataNodes = {head}

C15_Witness ==
    /\ headLock = 0
    /\ head # 0
    /\ node[head].data = None
    /\ Len(Chain) = 2
    /\ node[Chain[2]].data # None
    /\ Len(popOrder) = 2
\* C18 as claimed: the tail lock is released before the counter is
\* incremented, so a push about to increment no longer holds the lock.
C18_CountAfterRelease ==
    \A t \in Threads : pc[t] = "push_count" => tailLock # t

PushHoldsTail(t) ==
    pc[t] \in {"push_link", "push_settail", "push_count", "push_unlock"}

\* C18 as amended: the node is attached and tail repointed under the tail
\* lock, the counter is then incremented with the lock still held, and the
\* lock is released last, when push returns; so between taking the lock and
\* releasing it no other push holds the lock, and none acquires it before the
\* increment.
C18_CountUnderLockStep ==
    /\ \A t \in Threads : PushHoldsTail(t) => tailLock = t
    /\ \A t \in Threads :
          /\ (pc[t] = "push_settail" /\ pc'[t] # pc[t])
             => /\ tail' = newp[t]
                /\ tailLock' = t
                /\ len' = len
                /\ \E i \in DOMAIN node : node[i].next = Some(newp[t])
          /\ (pc[t] = "push_count" /\ pc'[t] # pc[t])
             => /\ tail = newp[t]
                /\ len' = len + 1
                /\ tailLock' = t
                /\ pc'[t] = "push_unlock"
          /\ (pc[t] = "push_unlock" /\ pc'[t] # pc[t])
             => /\ len' = len
                /\ tailLock' = 0
                /\ pc'[t] = "idle"

C18_CountUnderLock == [][C18_CountUnderLockStep]_vars

C18_Witness ==
    \E t, u \in Threads :
        /\ pc[t] = "push_unlock"
        /\ tailLock = t
        /\ pc[u] = "push_lock"
        /\ len = 2
        /\ tail = newp[t]
\* C17: under fair scheduling and fair lock granting every call that has
\* started returns: a thread inside push or pop, waiting for a lock
\* included, is eventually back outside, holding no lock.
C17_CallsReturn ==
    /\ [](\A t \in Threads : pc[t] = "idle" => (headLock # t /\ tailLock # t))
    /\ \A t \in Threads : (pc[t] # "idle") ~> (pc[t] = "idle")

C17_Witness ==
    \E t, u \in Threads :
        /\ t # u
        /\ pc[t] = "pop_lock"
        /\ headLock = u
        /\ pc[u] = "pop_take"
        /\ tailLock = 0
PopHoldsHead(t) ==
    pc[t] \in {"pop_load", "pop_none", "pop_take", "pop_count", "pop_data"}

C16_NoNesting ==
    \A t \in Threads :
        /\ ~(headLock = t /\ tailLock = t)
        /\ tailLock = t => PushHoldsTail(t)
        /\ headLock = t => PopHoldsHead(t)

C16_LenStep ==
    lenSeen' # lenSeen =>
        /\ lenSeen' = len
        /\ UNCHANGED << headLock, tailLock, headPoisoned, pc >>

\* C16: no thread ever holds the head lock and the tail lock together: the
\* tail lock is held only by a thread inside push and the head lock only by
\* a thread inside pop; len() can be called whatever locks are held and
\* changes no lock.
C16_NoLockNesting ==
    /\ [](C16_NoNesting /\ ENABLED LenCall)
    /\ [][C16_LenStep]_vars

C16_Witness ==
    \E t, u \in Threads :
        /\ headLock = t /\ pc[t] = "pop_none"
        /\ tailLock = u /\ pc[u] = "push_unlock"
        /\ NStarted = 1
        /\ len = 1
        /\ lenSeen = 1
\* The consumer reads a length of 0 and decides to return None although a
\* node is attached after the sentinel.
C19_FalseEmptyStep ==
    /\ pc[2] = "pop_load"
    /\ pc'[2] = "pop_none"
    /\ node[head].next # None

\* The consumer has decided to return None while the producer's node holding
\* v is attached and not yet counted.
C19_FalseEmpty(v) ==
    /\ pc[2] = "pop_none"
    /\ node[head].next # None
    /\ pc[1] \in {"push_settail", "push_count"}
    /\ val[1] = v

\* The values held by the nodes after the sentinel.
C19_Queued == {node[Chain[i]].data[1] : i \in 2 .. Len(Chain)}

\* C19: a pop that finds the length 0 while a node is attached after the
\* sentinel does so only between the producer's link and its increment of
\* the counter, with nothing else in the queue, and changes nothing in the
\* queue.  The value is not lost: every value a push has linked is in a node
\* after the sentinel, or in the node a pop is taking it from, until that
\* pop has returned it, and if the consumer goes
\* on calling pop, a later pop returns it.
C19_BenignFalseEmpty ==
    /\ [][C19_FalseEmptyStep =>
            /\ pc[1] \in {"push_settail", "push_count"}
            /\ len = 0
            /\ Len(pushOrder) = Len(popOrder) + 1
            /\ UNCHANGED << node, head, tail, len >>]_vars
    /\ [](\A i \in 1 .. Len(pushOrder) :
            \/ pc[1] = "push_link" /\ i = Len(pushOrder)
            \/ pushOrder[i] \in C19_Queued
            \/ pc[2] \in {"pop_count", "pop_data"} /\ node[head].data = Some(pushOrder[i])
            \/ pushOrder[i] \in Range(popOrder))
    /\ \A k \in 0 .. (MaxPush - 1) :
          ([]<>(pc[2] = "pop_load")) =>
              (C19_FalseEmpty(Tag(1, k)) ~> (Tag(1, k) \in Range(popOrder)))

C19_Witness ==
    /\ pc[2] = "pop_none"
    /\ res[2] = None
    /\ pc[1] = "push_count"
    /\ npush[1] = 1
    /\ popOrder = << >>
    /\ len = 0
    /\ node[head].next # None
    /\ node[node[head].next[1]].data = Some(Tag(1, 0))
\* C20: a list and its clones are independent: tail and every prev of a
\* list designate nodes of the list's own chain, and every call on one of
\* them returns, and leaves in each list, what it would with lists that
\* share nothing: no call panics or uses a freed node, and each list shows
\* the elements and the len() of its own reference sequence.
C20_CloneIndependent ==
    /\ dstatus = "ok"
    /\ dres = mres
    /\ \A i \in 1 .. Len(lists) :
          LET own == Owned(dnode, lists[i].head, Cardinality(DOMAIN dnode))
          IN  /\ lists[i].tail # None => lists[i].tail[1] \in own
              /\ \A n \in own : dnode[n].prev # None => dnode[n].prev[1] \in own
              /\ Display(i) = Show(model[i])
              /\ ListLen(i) = Usize(Len(model[i]))
====
